---- MODULE Spec2Model ----
(***************************************************************************)
(* Model of src/ms_analyzer.py: the heading classifier (the regular        *)
(* expressions of split_chapters), the page scan of split_chapters, the    *)
(* title lookup of get_chapter_start_pages and the per-chapter statistics  *)
(* loop of analyze.                                                        *)
(*                                                                         *)
(* A Python str is a sequence of one-character strings.  A page is a       *)
(* record [isStr, text]: isStr = FALSE is a page object that is not a str  *)
(* (pdfplumber's None).  Optional values carry a kind tag:                 *)
(*   title      [kind : {"str","none"}, s : characters]                    *)
(*   startPage  [kind : {"int","none"}, v : integer]                       *)
(*   a reported page field  [kind : {"int","?"}, v : integer]              *)
(* A page index is the Python (0-based) index; pages[i + 1] is page i.     *)
(***************************************************************************)
EXTENDS Integers, Sequences, FiniteSets, TLC

\* Longest input document, in pages.
MaxPages == 3

-----------------------------------------------------------------------------
\* Characters and the str methods the code calls.  The input texts are ASCII:
\* letters, digits, punctuation, the space and the line feed, so the line feed
\* is the only line break and case mapping is that of the 26 letters.

LowerLetters == <<"a", "b", "c", "d", "e", "f", "g", "h", "i", "j", "k", "l", "m",
    "n", "o", "p", "q", "r", "s", "t", "u", "v", "w", "x", "y", "z">>
UpperLetters == <<"A", "B", "C", "D", "E", "F", "G", "H", "I", "J", "K", "L", "M",
    "N", "O", "P", "Q", "R", "S", "T", "U", "V", "W", "X", "Y", "Z">>
Range(s) == {s[k] : k \in DOMAIN s}
LowerSet == Range(LowerLetters)
UpperSet == Range(UpperLetters)
\* \d
DigitClass == {"0", "1", "2", "3", "4", "5", "6", "7", "8", "9"}
\* [a-z] under re.IGNORECASE
LetterClass == LowerSet \cup UpperSet
\* [ivxlcdm] under re.IGNORECASE
RomanClass == {"i", "v", "x", "l", "c", "d", "m", "I", "V", "X", "L", "C", "D", "M"}
\* \s, and what str.strip() removes
Whitespace == {" ", "\t", "\n"}
\* \w
IsWord(c) == c \in LetterClass \cup DigitClass \cup {"_"}

UpperOf == [c \in LowerSet |-> UpperLetters[CHOOSE k \in 1..Len(LowerLetters) : LowerLetters[k] = c]]
LowerOf == [c \in UpperSet |-> LowerLetters[CHOOSE k \in 1..Len(UpperLetters) : UpperLetters[k] = c]]
UpperChar(c) == IF c \in LowerSet THEN UpperOf[c] ELSE c
LowerChar(c) == IF c \in UpperSet THEN LowerOf[c] ELSE c
\* str.upper()
upper(s) == IF s = <<>> THEN <<>> ELSE [k \in 1..Len(s) |-> UpperChar(s[k])]
\* the case folding of re.IGNORECASE on a literal
lower(s) == IF s = <<>> THEN <<>> ELSE [k \in 1..Len(s) |-> LowerChar(s[k])]

MinOf(S) == CHOOSE x \in S : \A y \in S : x <= y
MaxOf(S) == CHOOSE x \in S : \A y \in S : y <= x

\* str.strip()
strip(s) ==
    LET keep == {k \in DOMAIN s : s[k] \notin Whitespace}
    IN  IF keep = {} THEN <<>> ELSE SubSeq(s, MinOf(keep), MaxOf(keep))

\* str.splitlines(): "" has no line, and a final line break opens no line
RECURSIVE splitlines(_)
splitlines(s) ==
    IF s = <<>> THEN <<>>
    ELSE LET nl == {k \in DOMAIN s : s[k] = "\n"}
         IN  IF nl = {} THEN <<s>>
             ELSE <<SubSeq(s, 1, MinOf(nl) - 1)>>
                      \o splitlines(SubSeq(s, MinOf(nl) + 1, Len(s)))

\* needle in haystack
Contains(haystack, needle) ==
    \E k \in 0..(Len(haystack) - Len(needle)) :
        SubSeq(haystack, k + 1, k + Len(needle)) = needle

\* "\n".join(texts)
RECURSIVE JoinLines(_)
JoinLines(texts) ==
    IF texts = <<>> THEN <<>>
    ELSE IF Len(texts) = 1 THEN texts[1]
    ELSE texts[1] \o <<"\n">> \o JoinLines(Tail(texts))

\* \b between s[n] and s[n + 1] (n = 0: before the string, n = Len(s): after it)
WordBoundaryAt(s, n) ==
    LET left == n >= 1 /\ IsWord(s[n])
        right == n + 1 <= Len(s) /\ IsWord(s[n + 1])
    IN  left /= right

\* len(re.findall(r'\b\w+\b', text)): the maximal runs of word characters
count_words(text) ==
    Cardinality({k \in DOMAIN text : IsWord(text[k]) /\ (k = 1 \/ ~IsWord(text[k - 1]))})

-----------------------------------------------------------------------------
\* The literals of the patterns, and the labels of section_patterns.

Lit_chapter == <<"c", "h", "a", "p", "t", "e", "r">>
Lit_book == <<"b", "o", "o", "k">>
Lit_prologue == <<"p", "r", "o", "l", "o", "g", "u", "e">>
Lit_epilogue == <<"e", "p", "i", "l", "o", "g", "u", "e">>
Lit_acknowledgements == <<"a", "c", "k", "n", "o", "w", "l", "e", "d", "g", "e", "m", "e", "n",
    "t", "s">>
Lit_acknowledgments == <<"a", "c", "k", "n", "o", "w", "l", "e", "d", "g", "m", "e", "n", "t",
    "s">>
Lit_dedication == <<"d", "e", "d", "i", "c", "a", "t", "i", "o", "n">>
Lit_character_list == <<"c", "h", "a", "r", "a", "c", "t", "e", "r", " ", "l", "i", "s", "t">>
Lit_about_the_author == <<"a", "b", "o", "u", "t", " ", "t", "h", "e", " ", "a", "u", "t", "h",
    "o", "r">>
Lit_also_by_the_author == <<"a", "l", "s", "o", " ", "b", "y", " ", "t", "h", "e", " ", "a",
    "u", "t", "h", "o", "r">>
Lit_thank_you == <<"t", "h", "a", "n", "k", " ", "y", "o", "u">>
Label_Prologue == <<"P", "r", "o", "l", "o", "g", "u", "e">>
Label_Epilogue == <<"E", "p", "i", "l", "o", "g", "u", "e">>
Label_Acknowledgements == <<"A", "c", "k", "n", "o", "w", "l", "e", "d", "g", "e", "m", "e",
    "n", "t", "s">>
Label_Dedication == <<"D", "e", "d", "i", "c", "a", "t", "i", "o", "n">>
Label_Character_List == <<"C", "h", "a", "r", "a", "c", "t", "e", "r", " ", "L", "i", "s", "t">>
Label_About_the_Author == <<"A", "b", "o", "u", "t", " ", "t", "h", "e", " ", "A", "u", "t",
    "h", "o", "r">>
Label_Also_by_the_Author == <<"A", "l", "s", "o", " ", "b", "y", " ", "t", "h", "e", " ", "A",
    "u", "t", "h", "o", "r">>
Label_Thank_You == <<"T", "h", "a", "n", "k", " ", "Y", "o", "u">>

-----------------------------------------------------------------------------
\* The heading classifier: chapter_regex and section_patterns.

\* chapter_regex.match(line), for
\*   ^(?:chapter|book)\s+(?:\d+|[a-z]+|[ivxlcdm]+)\b.*   (re.IGNORECASE)
\* m is the length \s+ takes and n the length the numeral alternative takes.
ChapterRegexMatch(line) ==
    \E kw \in {Lit_chapter, Lit_book} :
        /\ Len(line) >= Len(kw)
        /\ lower(SubSeq(line, 1, Len(kw))) = kw
        /\ \E m \in 1..(Len(line) - Len(kw)) :
              /\ \A k \in 1..m : line[Len(kw) + k] \in Whitespace
              /\ \E cls \in {DigitClass, LetterClass, RomanClass} :
                    \E n \in 1..(Len(line) - Len(kw) - m) :
                        /\ \A k \in 1..n : line[Len(kw) + m + k] \in cls
                        /\ WordBoundaryAt(line, Len(kw) + m + n)

\* The dict section_patterns in its insertion order; lits are the strings the
\* pattern's literal part spells (acknowledg(e)?ments spells two).
section_patterns == <<
    [label |-> Label_Prologue, lits |-> {Lit_prologue}],
    [label |-> Label_Epilogue, lits |-> {Lit_epilogue}],
    [label |-> Label_Acknowledgements, lits |-> {Lit_acknowledgements, Lit_acknowledgments}],
    [label |-> Label_Dedication, lits |-> {Lit_dedication}],
    [label |-> Label_Character_List, lits |-> {Lit_character_list}],
    [label |-> Label_About_the_Author, lits |-> {Lit_about_the_author}],
    [label |-> Label_Also_by_the_Author, lits |-> {Lit_also_by_the_author}],
    [label |-> Label_Thank_You, lits |-> {Lit_thank_you}] >>

\* regex.match(line) for one entry of section_patterns: ^<literal>\b
SectionRegexMatch(entry, line) ==
    \E lit \in entry.lits :
        /\ Len(line) >= Len(lit)
        /\ lower(SubSeq(line, 1, Len(lit))) = lit
        /\ WordBoundaryAt(line, Len(lit))

NoMatch == [kind |-> "none", title |-> <<>>]

\* The body of the line loop for one stripped line: the chapter pattern first,
\* then the section patterns in order; title is what current_title is set to.
MatchLine(clean_line) ==
    IF ChapterRegexMatch(clean_line)
    THEN [kind |-> "chapter", title |-> clean_line]
    ELSE LET hits == {k \in DOMAIN section_patterns :
                         SectionRegexMatch(section_patterns[k], clean_line)}
         IN  IF hits = {} THEN NoMatch
             ELSE [kind |-> "section", title |-> section_patterns[MinOf(hits)].label]

\* The line loop without its break: the last heading-like line decides.
ScanLinesLastWins(lines) ==
    LET hits == {k \in DOMAIN lines : MatchLine(strip(lines[k])).kind /= "none"}
    IN  IF hits = {} THEN NoMatch ELSE MatchLine(strip(lines[MaxOf(hits)]))

\* for line in lines: ... break on the first line that matches
RECURSIVE ScanLines(_)
ScanLines(lines) ==
    IF lines = <<>> THEN NoMatch
    ELSE LET m == MatchLine(strip(Head(lines)))
         IN  IF m.kind /= "none" THEN m ELSE ScanLines(Tail(lines))

-----------------------------------------------------------------------------
\* Input pages.

\* ''
Text_Empty == <<>>
\* 'Chapter One\nText A'
Text_ChapterOne == <<"C", "h", "a", "p", "t", "e", "r", " ", "O", "n", "e", "\n", "T", "e",
    "x", "t", " ", "A">>
\* 'More text'
Text_MoreText == <<"M", "o", "r", "e", " ", "t", "e", "x", "t">>
\* 'Chapter Two\nText B'
Text_ChapterTwo == <<"C", "h", "a", "p", "t", "e", "r", " ", "T", "w", "o", "\n", "T", "e",
    "x", "t", " ", "B">>
\* 'PROLOGUE\nchapter 1'
Text_PrologueThenChapter == <<"P", "R", "O", "L", "O", "G", "U", "E", "\n", "c", "h", "a", "p",
    "t", "e", "r", " ", "1">>
\* 'Intro\n  Book IV: Dawn \nEpilogue'
Text_IndentedBook == <<"I", "n", "t", "r", "o", "\n", " ", " ", "B", "o", "o", "k", " ", "I",
    "V", ":", " ", "D", "a", "w", "n", " ", "\n", "E", "p", "i", "l", "o", "g", "u", "e">>
\* 'Bookkeeping\nChapter 1a'
Text_Lookalikes == <<"B", "o", "o", "k", "k", "e", "e", "p", "i", "n", "g", "\n", "C", "h",
    "a", "p", "t", "e", "r", " ", "1", "a">>
\* '\nacknowledgments'
Text_BlankThenAck == <<"\n", "a", "c", "k", "n", "o", "w", "l", "e", "d", "g", "m", "e", "n",
    "t", "s">>

Str(t) == [isStr |-> TRUE, text |-> t]
\* a page object that is not a str
NonStr == [isStr |-> FALSE, text |-> <<>>]

PageSet ==
    {NonStr} \cup {Str(t) : t \in {Text_Empty, Text_ChapterOne, Text_MoreText, Text_ChapterTwo,
                                   Text_PrologueThenChapter, Text_IndentedBook,
                                   Text_Lookalikes, Text_BlankThenAck}}

Documents == UNION {[1..n -> PageSet] : n \in 0..MaxPages}

\* ["Chapter One\nText A", "More text", "Chapter Two\nText B"]
ExamplePages == <<Str(Text_ChapterOne), Str(Text_MoreText), Str(Text_ChapterTwo)>>

-----------------------------------------------------------------------------
\* Values.

None == [kind |-> "none", v |-> 0]
IntVal(n) == [kind |-> "int", v |-> n]
\* the placeholder "?"
QMark == [kind |-> "?", v |-> 0]
NoneTitle == [kind |-> "none", s |-> <<>>]
StrTitle(t) == [kind |-> "str", s |-> t]
\* the tuple (i, page_text) of a chapter's page list
Entry(idx, text) == [idx |-> idx, text |-> text]
\* isinstance(x, tuple), for x a title or an entry
IsTuple(x) == "idx" \in DOMAIN x

\* A chapter is the tuple (title, start, end, content).
Title(ch) == ch[1]
StartPage(ch) == ch[2]
EndPage(ch) == ch[3]
Content(ch) == ch[4]

-----------------------------------------------------------------------------
\* State.

VARIABLES
    pages,            \* the argument of split_chapters and get_chapter_start_pages
    pc,               \* "split", "resolve", "analyze", "done"
    i,                \* split_chapters: index of the page the loop is at
    chapters,         \* split_chapters: the list it returns
    current_chapter,  \* split_chapters: [isNone, items]
    current_title,
    current_start,
    start_pages,      \* get_chapter_start_pages: the dict it returns
    resolver_raised,  \* get_chapter_start_pages ended in an exception
    k,                \* analyze: the number of the chapter the loop is at
    chapter_data      \* analyze: the list of records

vars == <<pages, pc, i, chapters, current_chapter, current_title, current_start,
          start_pages, resolver_raised, k, chapter_data>>

splitVars == <<i, chapters, current_chapter, current_title, current_start>>

Init ==
    /\ pages \in Documents
    /\ pc = "split"
    /\ i = 0
    /\ chapters = <<>>
    /\ current_chapter = [isNone |-> FALSE, items |-> <<>>]
    /\ current_title = NoneTitle
    /\ current_start = None
    /\ start_pages = <<>>
    /\ resolver_raised = FALSE
    /\ k = 1
    /\ chapter_data = <<>>

-----------------------------------------------------------------------------
\* split_chapters.

\* `if current_chapter:` a list that is not empty
Truthy(cc) == ~cc.isNone /\ cc.items /= <<>>

\* the test written as `current_chapter` instead of `current_chapter is not None`
IsNonEmptyList(cc) == cc.items /= <<>>

\* `current_chapter is not None`
IsNotNone(cc) == ~cc.isNone

\* the end page given as the heading's own page
SamePage(idx) == idx

\* i - 1, the end page of the chapter a heading closes
PrevPage(idx) == idx - 1

AtStringPage == pc = "split" /\ i < Len(pages) /\ pages[i + 1].isStr
page_text == pages[i + 1].text
\* the outcome of the line loop on the page
matched == ScanLines(splitlines(page_text))

\* `if not isinstance(page_text, str): continue`
SkipNonStringPage ==
    /\ pc = "split" /\ i < Len(pages) /\ ~pages[i + 1].isStr
    /\ i' = i + 1
    /\ UNCHANGED <<pages, pc, chapters, current_chapter, current_title, current_start,
                   start_pages, resolver_raised, k, chapter_data>>

\* The assignments both match branches make.
OpenChapter(title) ==
    /\ chapters' = IF Truthy(current_chapter)
                   THEN Append(chapters, <<current_title, current_start, PrevPage(i),
                                           current_chapter.items>>)
                   ELSE chapters
    /\ current_title' = StrTitle(title)
    /\ current_start' = IntVal(i)
    /\ current_chapter' = [isNone |-> FALSE, items |-> <<Entry(i, page_text)>>]

\* A page whose first heading-like line matches chapter_regex.
ChapterHeading ==
    /\ AtStringPage
    /\ matched.kind = "chapter"
    /\ OpenChapter(matched.title)
    /\ i' = i + 1
    /\ UNCHANGED <<pages, pc, start_pages, resolver_raised, k, chapter_data>>

\* A page whose first heading-like line matches a section pattern.
NamedSection ==
    /\ AtStringPage
    /\ matched.kind = "section"
    /\ OpenChapter(matched.title)
    /\ i' = i + 1
    /\ UNCHANGED <<pages, pc, start_pages, resolver_raised, k, chapter_data>>

\* A page none of whose lines matches.
NoHeading ==
    /\ AtStringPage
    /\ matched.kind = "none"
    /\ current_chapter' =
          IF IsNotNone(current_chapter)
          THEN [current_chapter EXCEPT !.items = Append(@, Entry(i, page_text))]
          ELSE current_chapter
    /\ i' = i + 1
    /\ UNCHANGED <<pages, pc, chapters, current_title, current_start,
                   start_pages, resolver_raised, k, chapter_data>>

\* After the loop: the open chapter is added, and split_chapters returns.
EndOfPages ==
    /\ pc = "split" /\ i = Len(pages)
    /\ chapters' = IF Truthy(current_chapter)
                   THEN Append(chapters, <<current_title, current_start, Len(pages) - 1,
                                           current_chapter.items>>)
                   ELSE chapters
    /\ pc' = "resolve"
    /\ UNCHANGED <<pages, i, current_chapter, current_title, current_start,
                   start_pages, resolver_raised, k, chapter_data>>

-----------------------------------------------------------------------------
\* get_chapter_start_pages.

\* d[key] = value
DictSet(d, key, value) ==
    [x \in (DOMAIN d) \cup {key} |-> IF x = key THEN value ELSE d[x]]

\* page_text.strip().splitlines()[0].strip().upper(); the text has a line
PossibleTitle(text) == upper(strip(splitlines(strip(text))[1]))

\* The pages the `for i, page in enumerate(pages)` loop finds the title in.
PagesWith(title, pgs) ==
    {j \in 1..Len(pgs) : pgs[j].isStr /\ Contains(upper(pgs[j].text), title)}

\* What that loop stores: i + 1 for the first such page, or None.
FirstPageWith(title, pgs) ==
    IF PagesWith(title, pgs) = {} THEN None ELSE IntVal(MinOf(PagesWith(title, pgs)))

\* One iteration of `for chapter in chapters`, on acc = [map, raised].
\* chapter[0] is the chapter's title; the branch for a tuple raises IndexError
\* on a text without a line and AttributeError at a page that is no str.
ResolveChapter(acc, chapter, pgs) ==
    IF acc.raised THEN acc
    ELSE LET first_entry == chapter[1]
         IN  IF ~IsTuple(first_entry) THEN acc
             ELSE IF splitlines(strip(first_entry.text)) = <<>>
                  THEN [acc EXCEPT !.raised = TRUE]
             ELSE LET possible_title == PossibleTitle(first_entry.text)
                      hits == PagesWith(possible_title, pgs)
                  IN  IF \E j \in 1..Len(pgs) : ~pgs[j].isStr /\ \A h \in hits : j < h
                      THEN [acc EXCEPT !.raised = TRUE]
                      ELSE [acc EXCEPT !.map = DictSet(@, possible_title,
                                                       FirstPageWith(possible_title, pgs))]

RECURSIVE ResolveAll(_, _, _)
ResolveAll(acc, chs, pgs) ==
    IF chs = <<>> THEN acc
    ELSE ResolveAll(ResolveChapter(acc, Head(chs), pgs), Tail(chs), pgs)

get_chapter_start_pages(chs, pgs) ==
    ResolveAll([map |-> <<>>, raised |-> FALSE], chs, pgs)

GetChapterStartPages ==
    /\ pc = "resolve"
    /\ start_pages' = get_chapter_start_pages(chapters, pages).map
    /\ resolver_raised' = get_chapter_start_pages(chapters, pages).raised
    /\ pc' = "analyze"
    /\ UNCHANGED <<pages, splitVars, k, chapter_data>>

-----------------------------------------------------------------------------
\* analyze, from `chapter_data = []` on.

\* "\n".join(line for entry in content if entry and isinstance(entry, tuple) ...)
TextBlock(content) ==
    LET kept == SelectSeq(content, IsTuple)
    IN  JoinLines([j \in 1..Len(kept) |-> kept[j].text])

\* The try block raises: end_page - start_page with start_page None.
AggregationRaises(ch) == StartPage(ch).kind /= "int"

ChapterRecord(n, ch) ==
    [chapter |-> n,
     title |-> Title(ch),
     start_page |-> IntVal(StartPage(ch).v + 1),
     end_page |-> IntVal(EndPage(ch) + 1),
     page_count |-> IntVal(EndPage(ch) - StartPage(ch).v + 1),
     word_count |-> count_words(TextBlock(Content(ch)))]

PlaceholderRecord(n, ch) ==
    [chapter |-> n,
     title |-> Title(ch),
     start_page |-> QMark,
     end_page |-> QMark,
     page_count |-> QMark,
     word_count |-> 0]

\* The try block runs to its end.
AnalyzeChapter ==
    /\ pc = "analyze" /\ k <= Len(chapters)
    /\ ~AggregationRaises(chapters[k])
    /\ chapter_data' = Append(chapter_data, ChapterRecord(k, chapters[k]))
    /\ k' = k + 1
    /\ UNCHANGED <<pages, pc, splitVars, start_pages, resolver_raised>>

\* The loop without its `except`: the exception ends analyze.
AnalyzeChapterAborts ==
    /\ pc = "analyze" /\ k <= Len(chapters)
    /\ AggregationRaises(chapters[k])
    /\ pc' = "done"
    /\ UNCHANGED <<pages, splitVars, start_pages, resolver_raised, k, chapter_data>>

\* `except Exception`
AnalyzeChapterFailed ==
    /\ pc = "analyze" /\ k <= Len(chapters)
    /\ AggregationRaises(chapters[k])
    /\ chapter_data' = Append(chapter_data, PlaceholderRecord(k, chapters[k]))
    /\ k' = k + 1
    /\ UNCHANGED <<pages, pc, splitVars, start_pages, resolver_raised>>

\* After the loop: stats is built and analyze returns.
AnalyzeReturn ==
    /\ pc = "analyze" /\ k > Len(chapters)
    /\ pc' = "done"
    /\ UNCHANGED <<pages, splitVars, start_pages, resolver_raised, k, chapter_data>>

stats == [chapter_count |-> Len(chapter_data)]

-----------------------------------------------------------------------------

Next ==
    \/ SkipNonStringPage
    \/ ChapterHeading
    \/ NamedSection
    \/ NoHeading
    \/ EndOfPages
    \/ GetChapterStartPages
    \/ AnalyzeChapter
    \/ AnalyzeChapterFailed
    \/ AnalyzeReturn

Spec == Init /\ [][Next]_vars

-----------------------------------------------------------------------------
\* Properties.  They describe headings by the patterns themselves, not by the
\* line loop, and read the scan's result once split_chapters has returned.

SplitReturned == pc /= "split"
AllPagesStr == \A j \in DOMAIN pages : pages[j].isStr
HeadingLike(line) == MatchLine(strip(line)).kind /= "none"
HeadingLines(p) == {l \in DOMAIN splitlines(p.text) : HeadingLike(splitlines(p.text)[l])}
HasHeading(p) == p.isStr /\ HeadingLines(p) /= {}
\* the title the first heading-like line of page p gives
FirstHeadingTitle(p) == MatchLine(strip(splitlines(p.text)[MinOf(HeadingLines(p))])).title
\* the page indices in the page list of chapter ch
PageIndices(ch) == {Content(ch)[e].idx : e \in DOMAIN Content(ch)}

\* C1: no page that precedes the first page with a heading line is in the page
\* list of any returned chapter: every listed page has a heading page at or
\* before it.
C1_PreambleExcluded ==
    SplitReturned =>
        \A n \in DOMAIN chapters : \A idx \in PageIndices(chapters[n]) :
            \E j \in 0..idx : HasHeading(pages[j + 1])

\* C2: a heading found on page i while a chapter is open appends that chapter
\* with end page i - 1 and opens the new one at start page i; at the end of the
\* input the open chapter is appended with the last page's index as its end;
\* the three example pages give exactly the chapters [0,1] and [2,2].
C2_CloseAtPreviousPage ==
    /\ [][(AtStringPage /\ HasHeading(pages[i + 1]) /\ current_chapter.items /= <<>>) =>
            /\ chapters' = Append(chapters, <<current_title, current_start, i - 1,
                                              current_chapter.items>>)
            /\ current_start' = IntVal(i)
            /\ current_chapter'.items = <<Entry(i, pages[i + 1].text)>>]_vars
    /\ [][(pc = "split" /\ i = Len(pages) /\ current_chapter.items /= <<>>) =>
            chapters' = Append(chapters, <<current_title, current_start, Len(pages) - 1,
                                           current_chapter.items>>)]_vars
    /\ [](SplitReturned /\ pages = ExamplePages =>
            /\ Len(chapters) = 2
            /\ StartPage(chapters[1]) = IntVal(0) /\ EndPage(chapters[1]) = 1
            /\ StartPage(chapters[2]) = IntVal(2) /\ EndPage(chapters[2]) = 2)

\* The example document has been split into two chapters, the second opened
\* by a heading found while the first was open.
C2_Witness ==
    /\ SplitReturned /\ pages = ExamplePages
    /\ Len(chapters) = 2 /\ PageIndices(chapters[1]) = {0, 1}

\* C3: the returned chapters' ranges are strictly ascending by start page and
\* do not overlap: of two consecutive chapters the first ends before the second
\* starts.
C3_RangesAscending ==
    SplitReturned =>
        \A n \in 1..(Len(chapters) - 1) :
            /\ StartPage(chapters[n]).kind = "int"
            /\ StartPage(chapters[n + 1]).kind = "int"
            /\ StartPage(chapters[n]).v < StartPage(chapters[n + 1]).v
            /\ EndPage(chapters[n]) < StartPage(chapters[n + 1]).v

\* C4: every returned chapter has an integer start page and end page with
\* start page <= end page.
C4_StartNotAfterEnd ==
    SplitReturned =>
        \A n \in DOMAIN chapters :
            /\ StartPage(chapters[n]).kind = "int"
            /\ StartPage(chapters[n]).v <= EndPage(chapters[n])

\* C5: a page with one or more heading-like lines opens exactly one chapter,
\* which starts at that page and takes its title from the first such line; no
\* two returned chapters share a start page.
C5_OneBoundaryPerPage ==
    SplitReturned =>
        /\ \A j \in DOMAIN pages :
              HasHeading(pages[j]) =>
                  /\ Cardinality({n \in DOMAIN chapters :
                                     StartPage(chapters[n]) = IntVal(j - 1)}) = 1
                  /\ \A n \in DOMAIN chapters :
                        StartPage(chapters[n]) = IntVal(j - 1) =>
                            Title(chapters[n]) = StrTitle(FirstHeadingTitle(pages[j]))
        /\ \A n, m \in DOMAIN chapters :
              n /= m => StartPage(chapters[n]) /= StartPage(chapters[m])

\* A page with two heading-like lines has opened a chapter.
C5_Witness ==
    /\ SplitReturned
    /\ \E j \in DOMAIN pages :
          /\ pages[j].isStr /\ Cardinality(HeadingLines(pages[j])) >= 2
          /\ \E n \in DOMAIN chapters : StartPage(chapters[n]) = IntVal(j - 1)

\* C6: for a document of str pages that opens with a heading, the returned
\* mapping has for each chapter an entry under the chapter's candidate title
\* (first line of its first page, trimmed and uppercased), whose value is
\* index + 1 of the first page whose uppercased text contains the title, or
\* None when no page does.
C6_TitleIndex ==
    (pc \in {"analyze", "done"} /\ AllPagesStr /\ pages /= <<>> /\ HasHeading(pages[1])) =>
        \A n \in DOMAIN chapters :
            LET first == Content(chapters[n])[1].text
            IN  splitlines(strip(first)) /= <<>> =>
                    /\ PossibleTitle(first) \in DOMAIN start_pages
                    /\ start_pages[PossibleTitle(first)] = FirstPageWith(PossibleTitle(first), pages)

\* C7: analyze's list has one record per chapter, numbered 1..n in chapter
\* order, and chapter_count = n; the record of a chapter whose aggregation
\* raises holds "?" for the page fields and 0 words, and every other record,
\* also after such a chapter, holds the chapter's real values.
C7_OneRecordPerChapter ==
    pc = "done" =>
        /\ Len(chapter_data) = Len(chapters)
        /\ stats.chapter_count = Len(chapters)
        /\ \A n \in DOMAIN chapters :
              /\ chapter_data[n].chapter = n
              /\ chapter_data[n].title = Title(chapters[n])
              /\ IF StartPage(chapters[n]).kind = "none"
                 THEN /\ chapter_data[n].start_page = QMark
                      /\ chapter_data[n].end_page = QMark
                      /\ chapter_data[n].page_count = QMark
                      /\ chapter_data[n].word_count = 0
                 ELSE /\ chapter_data[n].start_page = IntVal(StartPage(chapters[n]).v + 1)
                      /\ chapter_data[n].end_page = IntVal(EndPage(chapters[n]) + 1)
                      /\ chapter_data[n].page_count =
                            IntVal(EndPage(chapters[n]) - StartPage(chapters[n]).v + 1)
                      /\ chapter_data[n].word_count =
                            count_words(TextBlock(Content(chapters[n])))

\* analyze has returned; a chapter's aggregation raised and the chapter after
\* it has its real values.
C7_Witness ==
    /\ pc = "done" /\ Len(chapter_data) >= 2
    /\ AggregationRaises(chapters[1]) /\ chapter_data[1].start_page = QMark
    /\ chapter_data[2].start_page.kind = "int" /\ chapter_data[2].word_count > 0

\* C8: every returned chapter's title is a str taken from a matched line: the
\* stripped line for a chapter_regex match, the pattern's label for a section
\* match.
C8_TitleFromMatchedLine ==
    SplitReturned =>
        \A n \in DOMAIN chapters :
            /\ Title(chapters[n]).kind = "str"
            /\ \E j \in DOMAIN pages : \E l \in DOMAIN splitlines(pages[j].text) :
                  LET line == strip(splitlines(pages[j].text)[l])
                  IN  \/ ChapterRegexMatch(line) /\ Title(chapters[n]).s = line
                      \/ \E e \in DOMAIN section_patterns :
                            /\ SectionRegexMatch(section_patterns[e], line)
                            /\ Title(chapters[n]).s = section_patterns[e].label

\* C9: a page that is no str, or is the empty str, met while a chapter opened
\* by a heading is open is appended to that chapter as an empty page and
\* changes nothing else.
C9_EmptyPageAppended ==
    [][(/\ pc = "split" /\ i < Len(pages)
        /\ (~pages[i + 1].isStr \/ pages[i + 1].text = <<>>)
        /\ current_title.kind = "str" /\ current_chapter.items /= <<>>) =>
            /\ current_chapter'.items = Append(current_chapter.items, Entry(i, <<>>))
            /\ chapters' = chapters
            /\ current_title' = current_title
            /\ current_start' = current_start]_vars

\* C10: for a document of one or more pages, all str, every page index is in
\* exactly one returned chapter's page list, and each page list is a run of
\* consecutive ascending indices that ends at the chapter's end page.
C10_ChaptersPartitionPages ==
    (SplitReturned /\ pages /= <<>> /\ AllPagesStr) =>
        /\ \A idx \in 0..(Len(pages) - 1) :
              Cardinality({<<n, e>> \in (DOMAIN chapters) \X (1..Len(pages)) :
                              /\ e \in DOMAIN Content(chapters[n])
                              /\ Content(chapters[n])[e].idx = idx}) = 1
        /\ \A n \in DOMAIN chapters :
              /\ Content(chapters[n]) /= <<>>
              /\ \A e \in 1..(Len(Content(chapters[n])) - 1) :
                    Content(chapters[n])[e + 1].idx = Content(chapters[n])[e].idx + 1
              /\ Content(chapters[n])[Len(Content(chapters[n]))].idx = EndPage(chapters[n])

\* A document of three str pages has been split into several chapters.
C10_Witness ==
    /\ SplitReturned /\ AllPagesStr /\ Len(pages) >= 3
    /\ Len(chapters) >= 2
    /\ \E n \in DOMAIN chapters : Len(Content(chapters[n])) >= 2

====
